---- MODULE Spec2Model ----
(***************************************************************************)
(* Model of interpretation.py: the inference pass that persists one        *)
(* document-topic distribution per publication, and the aggregation passes *)
(* over the persisted distributions (per year, per journal, per dominant   *)
(* topic, and the titles-to-topics table).                                 *)
(*                                                                         *)
(* Probabilities are exact numbers in tenths (10 stands for 1.0); a mean   *)
(* is an exact reduced fraction <<numerator, denominator>> of tenths, so   *)
(* floating-point rounding is not part of the model.  An optional value is *)
(* <<>> (None or missing key) or <<v>>.  A Python dict is a function with  *)
(* a finite domain.                                                        *)
(***************************************************************************)
EXTENDS Integers, Sequences, FiniteSets, TLC

\* number of topics of the active model (parameter K of the inference pass)
K == 2
\* largest number of records in a collection
MaxDocs == 2
\* largest number of records in the raw collection
MaxRaw == 3

VARIABLES db, op, pc, raised, i,
          year_to_topics, year_to_cum_topics,
          journal_to_topics, journal_to_cum_topics,
          dominant_id_to_topics, dominant_id_to_cum_topics,
          df, df_max, new_index, df_index, titles

vars == <<db, op, pc, raised, i,
          year_to_topics, year_to_cum_topics,
          journal_to_topics, journal_to_cum_topics,
          dominant_id_to_topics, dominant_id_to_cum_topics,
          df, df_max, new_index, df_index, titles>>

yearVars == <<year_to_topics, year_to_cum_topics>>
journalVars == <<journal_to_topics, journal_to_cum_topics>>
coocVars == <<dominant_id_to_topics, dominant_id_to_cum_topics, df, df_max, new_index, df_index>>

----------------------------------------------------------------------------
(* Python values *)

None == <<>>
Some(v) == <<v>>

EmptyDict == [x \in {} |-> 0]
Put(f, k, v) == [x \in (DOMAIN f) \cup {k} |-> IF x = k THEN v ELSE f[x]]

\* str() and int() on topic ids: decimal numerals
Numerals == <<"0", "1", "2", "3", "4", "5", "6", "7", "8", "9">>
py_str(n) == Numerals[n + 1]
py_int(s) == CHOOSE n \in 0..(Len(Numerals) - 1) : Numerals[n + 1] = s

SeqRange(s) == {s[n] : n \in 1..Len(s)}
SetMax(S) == CHOOSE x \in S : \A y \in S : y <= x
SetMin(S) == CHOOSE x \in S : \A y \in S : x <= y

\* all orderings of a finite set, as sequences without repetition
Orderings(S) == {s \in [1..Cardinality(S) -> S] : \A a, b \in 1..Cardinality(S) : s[a] = s[b] => a = b}
\* all permutations of a sequence
PermutationsOf(s) == {[n \in 1..Len(s) |-> s[p[n]]] : p \in Orderings(1..Len(s))}

RECURSIVE GCD(_, _)
GCD(a, b) == IF b = 0 THEN a ELSE GCD(b, a % b)
\* the exact quotient n / d (n >= 0, d > 0)
Frac(n, d) == LET g == GCD(n, d) IN <<n \div g, d \div g>>
FracLeq(a, b) == a[1] * b[2] <= b[1] * a[2]

----------------------------------------------------------------------------
(* The trained model (gensim, external): a deterministic function of the  *)
(* token list.  Token "a" speaks for topic 0, "b" for topic 1; a topic     *)
(* without mass is omitted from the result, as gensim omits topics below   *)
(* its minimum probability.                                                *)

Count(tokens, w) == Cardinality({n \in 1..Len(tokens) : tokens[n] = w})
\* model.id2word.doc2bow(tokens): word -> number of occurrences
doc2bow(tokens) == [w \in SeqRange(tokens) |-> Count(tokens, w)]
TopicOfWord == [w \in {"a", "b"} |-> IF w = "a" THEN 0 ELSE 1]
\* model.get_document_topics(bow): list of (topic id, probability), ascending id
get_document_topics(bow) ==
    LET total == IF "a" \in DOMAIN bow /\ "b" \in DOMAIN bow THEN bow["a"] + bow["b"]
                 ELSE IF "a" \in DOMAIN bow THEN bow["a"] ELSE bow["b"]
        mass(t) == LET ws == {w \in DOMAIN bow : TopicOfWord[w] = t}
                   IN IF ws = {} THEN 0 ELSE (10 * bow[CHOOSE w \in ws : TRUE]) \div total
    IN IF mass(0) > 0 /\ mass(1) > 0 THEN << <<0, mass(0)>>, <<1, mass(1)>> >>
       ELSE IF mass(0) > 0 THEN << <<0, mass(0)>> >>
       ELSE << <<1, mass(1)>> >>

\* lines 120-122: dic_topics[str(t[0])] = float(t[1])
dic_topics(topics) ==
    [s \in {py_str(topics[n][1]) : n \in 1..Len(topics)} |->
        topics[CHOOSE n \in 1..Len(topics) : py_str(topics[n][1]) = s][2]]

\* line 125: the record written to the derived collection
insert_doc(d) ==
    [journal |-> d.journal[1], year |-> d.year[1], title |-> d.title[1],
     topics |-> Some(dic_topics(get_document_topics(doc2bow(d.tokens[1]))))]

\* line 110 reads d['journal'], d['year'], d['title']: KeyError when one is missing
HasMeta(d) == d.journal # None /\ d.year # None /\ d.title # None

\* one iteration of the loop of infer_document_topic_distribution (lines 104-128);
\* stored says whether the store accepts the write of line 128
InferIterWrongCollection(store, d, stored) ==
    IF d.tokens = None THEN [raised |-> "", db |-> store]
    ELSE IF ~HasMeta(d) THEN [raised |-> "KeyError", db |-> store]
    ELSE IF ~stored THEN [raised |-> "StoreError", db |-> store]
    ELSE [raised |-> "",
          db |-> [store EXCEPT !.publications_raw = Append(@, insert_doc(d))]]

InferIter(store, d, stored) ==
    IF d.tokens = None THEN [raised |-> "", db |-> store]
    ELSE IF ~HasMeta(d) THEN [raised |-> "KeyError", db |-> store]
    ELSE IF ~stored THEN [raised |-> "StoreError", db |-> store]
    ELSE [raised |-> "",
          db |-> [store EXCEPT !.publications = Append(@, insert_doc(d))]]

----------------------------------------------------------------------------
(* Aggregation over the persisted records *)

\* [value for key, value in sorted(d['topics'].iteritems(), key=lambda x: int(x[0]))]
RECURSIVE SortedByIntKey(_, _)
SortedByIntKey(topics, keys) ==
    IF keys = {} THEN <<>>
    ELSE LET k == CHOOSE k \in keys : \A j \in keys : py_int(k) <= py_int(j)
         IN <<topics[k]>> \o SortedByIntKey(topics, keys \ {k})

sorted_topic_values(topics) == SortedByIntKey(topics, DOMAIN topics)

\* topics.index(max(topics)): 0-based position of the first maximum
index_of_max(topics) ==
    SetMin({p \in 0..(Len(topics) - 1) : topics[p + 1] = SetMax(SeqRange(topics))}) 

\* max(items, key = itemgetter(1)) over the items in iteration order: the first maximum
RECURSIVE MaxItem(_, _)
MaxItem(items, best) ==
    IF items = <<>> THEN best
    ELSE MaxItem(Tail(items), IF Head(items)[2] > best[2] THEN Head(items) ELSE best)
max_by_value(items) == MaxItem(Tail(items), Head(items))

\* d['topics'].iteritems() of a dict whose keys are iterated in the order keyOrder
iteritems(topics, keyOrder) == [n \in 1..Len(keyOrder) |-> <<keyOrder[n], topics[keyOrder[n]]>>]

\* one iteration of the loop of get_year_to_topics (lines 451-461)
\* (the year is stored as an integer, on which int() changes nothing)
YearIterOverwrite(y2t, d) ==
    LET y == d.year
        withKey == IF y \in DOMAIN y2t THEN y2t ELSE Put(y2t, y, <<>>)
    IN IF d.topics = None THEN [raised |-> "KeyError", dict |-> withKey]
       ELSE [raised |-> "",
             dict |-> [withKey EXCEPT ![y] = <<sorted_topic_values(d.topics[1])>>]]

YearIter(y2t, d) ==
    LET y == d.year
        withKey == IF y \in DOMAIN y2t THEN y2t ELSE Put(y2t, y, <<>>)
    IN IF d.topics = None THEN [raised |-> "KeyError", dict |-> withKey]
       ELSE [raised |-> "",
             dict |-> [withKey EXCEPT ![y] = Append(@, sorted_topic_values(d.topics[1]))]]

\* one iteration of the loop of plot_topics_in_journals (lines 376-397)
JournalIter(j2t, d) ==
    LET journal == d.journal
        withKey == IF journal \in DOMAIN j2t THEN j2t ELSE Put(j2t, journal, <<>>)
    IN IF d.topics = None THEN [raised |-> "", dict |-> j2t]
       ELSE [raised |-> "",
             dict |-> [withKey EXCEPT ![journal] = Append(@, sorted_topic_values(d.topics[1]))]]

\* one iteration of the loop of plot_topic_co_occurrence (lines 282-294)
DominantIter(d2t, d) ==
    IF d.topics = None THEN [raised |-> "KeyError", dict |-> d2t]
    ELSE LET topics == sorted_topic_values(d.topics[1])
             max_topic_id == index_of_max(topics)
             withKey == IF max_topic_id \in DOMAIN d2t THEN d2t ELSE Put(d2t, max_topic_id, <<>>)
         IN [raised |-> "", dict |-> [withKey EXCEPT ![max_topic_id] = Append(@, topics)]]

\* one iteration of the loop of get_document_title_per_topic (lines 151-162)
TitleIter(rows, d, keyOrder) ==
    IF d.topics = None THEN [raised |-> "KeyError", rows |-> rows]
    ELSE LET dominant_topic == max_by_value(iteritems(d.topics[1], keyOrder))
         IN [raised |-> "",
             rows |-> Append(rows, [year |-> d.year, title |-> d.title, journal |-> d.journal,
                                    dominant_topic_id |-> dominant_topic[1],
                                    dominant_topic_percentage |-> dominant_topic[2]])]

\* np.array(v) of a list of lists of unequal lengths has no numeric columns: np.mean raises
Ragged(v) == \E a, b \in 1..Len(v) : Len(v[a]) # Len(v[b])
RECURSIVE SumColumn(_, _)
SumColumn(v, c) == IF v = <<>> THEN 0 ELSE Head(v)[c] + SumColumn(Tail(v), c)
\* np.mean(np.array(v), axis = 0) of equally long lists: the column means
np_mean(v) == [c \in 1..Len(v[1]) |-> Frac(SumColumn(v, c), Len(v))]

\* the loops of get_year_to_cum_topics (lines 488-494) and get_journal_to_cum_topics (lines 519-525)
cum_topics(buckets) ==
    IF \E k \in DOMAIN buckets : Ragged(buckets[k])
    THEN [raised |-> "TypeError", dict |-> EmptyDict]
    ELSE [raised |-> "", dict |-> [k \in DOMAIN buckets |-> np_mean(buckets[k])]]

\* whole passes, as the composition of their iterations
RECURSIVE get_year_to_topics(_, _)
get_year_to_topics(acc, docs) ==
    IF docs = <<>> THEN [raised |-> "", dict |-> acc]
    ELSE LET r == YearIter(acc, Head(docs))
         IN IF r.raised # "" THEN r ELSE get_year_to_topics(r.dict, Tail(docs))

RECURSIVE get_journal_to_topics(_, _)
get_journal_to_topics(acc, docs) ==
    IF docs = <<>> THEN [raised |-> "", dict |-> acc]
    ELSE LET r == JournalIter(acc, Head(docs))
         IN IF r.raised # "" THEN r ELSE get_journal_to_topics(r.dict, Tail(docs))

\* a grouping followed by its reduction; an error of the grouping ends the pass
reduce_grouping(g) ==
    IF g.raised # "" THEN [raised |-> g.raised, dict |-> EmptyDict] ELSE cum_topics(g.dict)

get_year_to_cum_topics_of(docs) == reduce_grouping(get_year_to_topics(EmptyDict, docs))
get_journal_to_cum_topics_of(docs) == reduce_grouping(get_journal_to_topics(EmptyDict, docs))

----------------------------------------------------------------------------
(* The co-occurrence frame (lines 296-335) *)

\* helper_functions.get_topic_label: a fixed one-to-one mapping from topic index to label;
\* a label is represented by the index it labels
get_topic_label(x) == x

ScaleFrac(f, m) == Frac(f[1] * m, f[2])
FracMax(S) == CHOOSE x \in S : \A y \in S : FracLeq(y, x)

\* lines 298-301: np.mean(np.array(v), axis = 0) * 100. for every dominant topic id
dominant_cum_topics(buckets) ==
    LET r == cum_topics(buckets)
    IN IF r.raised # "" THEN r
       ELSE [raised |-> "",
             dict |-> [k \in DOMAIN r.dict |->
                          [c \in 1..Len(r.dict[k]) |-> ScaleFrac(r.dict[k][c], 100)]]]

\* pd.DataFrame.from_dict raises when the arrays differ in length
FrameRagged(cum) == \E a, b \in DOMAIN cum : Len(cum[a]) # Len(cum[b])
\* number of rows of the frame
NRows(frame) == IF DOMAIN frame = {} THEN 0 ELSE Len(frame[CHOOSE c \in DOMAIN frame : TRUE])
\* max(row) of line 321: the row's entries and its 'max' entry, which is still 0
RowMax(frame, r) == FracMax({<<0, 1>>} \cup {frame[c][r + 1] : c \in DOMAIN frame})

\* the orders df.sort_values(by = ['max'], ascending = False) may give the rows
SortedByMax(index, maxes) ==
    {o \in Orderings(1..Len(index)) :
        \A a, b \in 1..Len(index) : a < b => FracLeq(maxes[o[b]], maxes[o[a]])}

----------------------------------------------------------------------------
(* Inputs *)

Years == {2000, 2001}
Journals == {"A", "B"}
ProbVals == {0, 5, 10}
TokenLists == {<<"a">>, <<"a", "b">>}

RECURSIVE SumOver(_, _)
SumOver(f, keys) ==
    IF keys = {} THEN 0
    ELSE LET k == CHOOSE k \in keys : TRUE IN f[k] + SumOver(f, keys \ {k})

\* the sparse distributions over the topic ids in ids whose probabilities sum to 1.0
Dists(ids) ==
    UNION {{f \in [{py_str(n) : n \in S} -> ProbVals] : SumOver(f, DOMAIN f) = 10} :
              S \in (SUBSET ids) \ {{}}}

\* the records a pass may read: only the field the pass groups by varies
Records(o, ids) ==
    [journal : IF o = "journal" THEN Journals ELSE {"A"},
     year : IF o = "year" THEN Years ELSE {2000},
     title : {"t"},
     topics : {None} \cup {Some(f) : f \in Dists(ids)}]

ListsUpTo(S, n) == UNION {[1..m -> S] : m \in 0..n}

\* collections of records with topic ids among 0..K-1, and single records that may
\* carry the topic id K
Collections(o) == ListsUpTo(Records(o, 0..(K - 1)), MaxDocs) \cup [1..1 -> Records(o, 0..K)]

RawRecords ==
    [journal : {None, Some("A")}, year : {Some(2000)}, title : {Some("t1"), Some("t2")},
     tokens : {None} \cup {Some(t) : t \in TokenLists}]

Fresh ==
    /\ raised = ""
    /\ i = 1
    /\ year_to_topics = EmptyDict /\ year_to_cum_topics = EmptyDict
    /\ journal_to_topics = EmptyDict /\ journal_to_cum_topics = EmptyDict
    /\ dominant_id_to_topics = EmptyDict /\ dominant_id_to_cum_topics = EmptyDict
    /\ df = EmptyDict /\ df_max = <<>> /\ new_index = <<>> /\ df_index = <<>>
    /\ titles = <<>>

Init ==
    /\ op \in {"titles", "year", "journal", "cooc"}
    /\ db \in [publications_raw : {<<>>}, publications : Collections(op)]
    /\ pc = "group"
    /\ Fresh

InitInfer ==
    /\ op = "infer"
    /\ db \in [publications_raw : ListsUpTo(RawRecords, MaxRaw), publications : {<<>>}]
    /\ pc = "loop"
    /\ Fresh

Running == raised = ""
\* D = self.db.read_collection(collection = 'publications')
D == db.publications

----------------------------------------------------------------------------
(* infer_document_topic_distribution *)

InferStep ==
    /\ op = "infer" /\ pc = "loop" /\ Running
    /\ i <= Len(db.publications_raw)
    /\ \E stored \in BOOLEAN :
          LET r == InferIter(db, db.publications_raw[i], stored)
          IN /\ db' = r.db
             /\ raised' = r.raised
             /\ i' = IF r.raised = "" THEN i + 1 ELSE i
    /\ UNCHANGED <<op, pc, yearVars, journalVars, coocVars, titles>>

InferDone ==
    /\ op = "infer" /\ pc = "loop" /\ Running
    /\ i > Len(db.publications_raw)
    /\ pc' = "done"
    /\ UNCHANGED <<db, op, raised, i, yearVars, journalVars, coocVars, titles>>

NextInfer == InferStep \/ InferDone
SpecInfer == InitInfer /\ [][NextInfer]_vars

----------------------------------------------------------------------------
(* get_document_title_per_topic *)

TitlesStep ==
    /\ op = "titles" /\ pc = "group" /\ Running
    /\ i <= Len(D)
    /\ \E keyOrder \in (IF D[i].topics = None THEN {<<>>} ELSE Orderings(DOMAIN D[i].topics[1])) :
          LET r == TitleIter(titles, D[i], keyOrder)
          IN /\ titles' = r.rows
             /\ raised' = r.raised
             /\ i' = IF r.raised = "" THEN i + 1 ELSE i
    /\ UNCHANGED <<db, op, pc, yearVars, journalVars, coocVars>>

\* line 165: save_csv(titles, ...)
TitlesSave ==
    /\ op = "titles" /\ pc = "group" /\ Running
    /\ i > Len(D)
    /\ pc' = "done"
    /\ UNCHANGED <<db, op, raised, i, yearVars, journalVars, coocVars, titles>>

(* get_year_to_topics and get_year_to_cum_topics, as plot_topics_over_time calls them *)

GroupYearStep ==
    /\ op = "year" /\ pc = "group" /\ Running
    /\ i <= Len(D)
    /\ LET r == YearIter(year_to_topics, D[i])
       IN /\ year_to_topics' = r.dict
          /\ raised' = r.raised
          /\ i' = IF r.raised = "" THEN i + 1 ELSE i
    /\ UNCHANGED <<db, op, pc, year_to_cum_topics, journalVars, coocVars, titles>>

ReduceYear ==
    /\ op = "year" /\ pc = "group" /\ Running
    /\ i > Len(D)
    /\ LET r == cum_topics(year_to_topics)
       IN /\ year_to_cum_topics' = r.dict
          /\ raised' = r.raised
          /\ pc' = IF r.raised = "" THEN "done" ELSE "reduce"
    /\ UNCHANGED <<db, op, i, year_to_topics, journalVars, coocVars, titles>>

(* plot_topics_in_journals and get_journal_to_cum_topics *)

GroupJournalStep ==
    /\ op = "journal" /\ pc = "group" /\ Running
    /\ i <= Len(D)
    /\ LET r == JournalIter(journal_to_topics, D[i])
       IN /\ journal_to_topics' = r.dict
          /\ raised' = r.raised
          /\ i' = IF r.raised = "" THEN i + 1 ELSE i
    /\ UNCHANGED <<db, op, pc, journal_to_cum_topics, yearVars, coocVars, titles>>

ReduceJournal ==
    /\ op = "journal" /\ pc = "group" /\ Running
    /\ i > Len(D)
    /\ LET r == cum_topics(journal_to_topics)
       IN /\ journal_to_cum_topics' = r.dict
          /\ raised' = r.raised
          /\ pc' = IF r.raised = "" THEN "done" ELSE "reduce"
    /\ UNCHANGED <<db, op, i, journal_to_topics, yearVars, coocVars, titles>>

(* plot_topic_co_occurrence *)

GroupDominantStep ==
    /\ op = "cooc" /\ pc = "group" /\ Running
    /\ i <= Len(D)
    /\ LET r == DominantIter(dominant_id_to_topics, D[i])
       IN /\ dominant_id_to_topics' = r.dict
          /\ raised' = r.raised
          /\ i' = IF r.raised = "" THEN i + 1 ELSE i
    /\ UNCHANGED <<db, op, pc, dominant_id_to_cum_topics, df, df_max, new_index, df_index,
                   yearVars, journalVars, titles>>

\* lines 296-315: the means, the frame with labelled columns and rows, the 'max' column
BuildFrame ==
    /\ op = "cooc" /\ pc = "group" /\ Running
    /\ i > Len(D)
    /\ LET r == dominant_cum_topics(dominant_id_to_topics)
       IN IF r.raised # ""
          THEN /\ raised' = r.raised /\ pc' = "reduce"
               /\ UNCHANGED <<dominant_id_to_cum_topics, df, df_max, i>>
          ELSE /\ dominant_id_to_cum_topics' = r.dict
               /\ IF FrameRagged(r.dict)
                  THEN /\ raised' = "ValueError" /\ pc' = "frame"
                       /\ UNCHANGED <<df, df_max, i>>
                  ELSE /\ df' = [c \in {get_topic_label(k) : k \in DOMAIN r.dict} |->
                                   r.dict[CHOOSE k \in DOMAIN r.dict : get_topic_label(k) = c]]
                       /\ df_max' = [n \in 1..NRows(r.dict) |-> <<0, 1>>]
                       /\ i' = 0
                       /\ raised' = "" /\ pc' = "suppress"
    /\ UNCHANGED <<db, op, dominant_id_to_topics, new_index, df_index, yearVars, journalVars, titles>>

\* one iteration of the loop of lines 318-326, on the row with position i
SuppressStep ==
    /\ op = "cooc" /\ pc = "suppress" /\ Running
    /\ i < NRows(df)
    /\ LET index == get_topic_label(i)
           m == RowMax(df, i)
       IN /\ df_max' = [df_max EXCEPT ![i + 1] = m]
          /\ IF index \in DOMAIN df
             THEN /\ df' = [df EXCEPT ![index][i + 1] = <<0, 1>>]
                  /\ new_index' = Append(new_index, <<index, m>>)
                  /\ i' = i + 1
                  /\ raised' = ""
             ELSE /\ raised' = "KeyError"
                  /\ UNCHANGED <<df, new_index, i>>
    /\ UNCHANGED <<db, op, pc, dominant_id_to_topics, dominant_id_to_cum_topics, df_index,
                   yearVars, journalVars, titles>>

\* lines 329-338: rename the rows, sort them by 'max', drop 'max', order the columns
FinishFrame ==
    /\ op = "cooc" /\ pc = "suppress" /\ Running
    /\ i >= NRows(df)
    /\ \E o \in SortedByMax(new_index, df_max) : df_index' = [n \in 1..Len(new_index) |-> new_index[o[n]]]
    /\ pc' = "done"
    /\ UNCHANGED <<db, op, raised, i, dominant_id_to_topics, dominant_id_to_cum_topics,
                   df, df_max, new_index, yearVars, journalVars, titles>>

Next ==
    \/ TitlesStep \/ TitlesSave
    \/ GroupYearStep \/ ReduceYear
    \/ GroupJournalStep \/ ReduceJournal
    \/ GroupDominantStep \/ BuildFrame \/ SuppressStep \/ FinishFrame

Spec == Init /\ [][Next]_vars

----------------------------------------------------------------------------
(* Properties *)

HasTopics(d) == d.topics # None
ValidIds(d) == \A s \in DOMAIN d.topics[1] : py_int(s) < K
\* the dense vector of length k: index t holds the probability of topic t, or 0
densify(topics, k) ==
    [t \in 1..k |-> IF py_str(t - 1) \in DOMAIN topics THEN topics[py_str(t - 1)] ELSE 0]
\* the vectors a grouping holds
Vectors(buckets) == UNION {SeqRange(buckets[k]) : k \in DOMAIN buckets}
NumVectors(buckets) ==
    LET RECURSIVE Total(_)
        Total(keys) == IF keys = {} THEN 0
                       ELSE LET k == CHOOSE k \in keys : TRUE
                            IN Len(buckets[k]) + Total(keys \ {k})
    IN Total(DOMAIN buckets)
AllVectors == Vectors(year_to_topics) \cup Vectors(journal_to_topics) \cup Vectors(dominant_id_to_topics)
Ended == pc = "done" \/ raised # ""
WithTopics == {n \in 1..Len(D) : HasTopics(D[n])}

\* C1: when every distribution of the collection has its ids in [0, K), every vector
\* a grouping pass (per year, per journal, per dominant topic) puts in a bucket is the
\* length-K vector of some record: index i holds the record's probability of topic i,
\* or 0 when the record omits topic i.
C1_DenseVectorHasLengthK ==
    (\A n \in WithTopics : ValidIds(D[n])) =>
        \A v \in AllVectors : \E n \in WithTopics : v = densify(D[n].topics[1], K)

\* C2: every row of the titles table reports the maximum probability of its record's
\* distribution together with the smallest topic id that has that probability,
\* whatever the order in which the mapping was iterated.
C2_DominantIsSmallestIdOfMaximum ==
    \A n \in 1..Len(titles) :
        LET dist == D[n].topics[1]
            top == SetMax({dist[s] : s \in DOMAIN dist})
        IN /\ titles[n].dominant_topic_percentage = top
           /\ titles[n].dominant_topic_id =
                 py_str(SetMin({py_int(s) : s \in {x \in DOMAIN dist : dist[x] = top}}))

\* the element-wise mean of the length-K vectors of the records of year y
YearMean(y) ==
    LET members == {n \in WithTopics : D[n].year = y}
        RECURSIVE Sum(_, _)
        Sum(ns, t) == IF ns = {} THEN 0
                      ELSE LET n == CHOOSE n \in ns : TRUE
                           IN densify(D[n].topics[1], K)[t] + Sum(ns \ {n}, t)
    IN [t \in 1..K |-> Frac(Sum(members, t), Cardinality(members))]

\* C3: when the per-year pass has returned, and every distribution has its ids in
\* [0, K), the result's keys are exactly the years of the records that carry a
\* distribution and each year's value is the element-wise mean of the length-K vectors
\* of that year's records.
C3_YearMeansOfDenseVectors ==
    (op = "year" /\ pc = "done" /\ \A n \in WithTopics : ValidIds(D[n])) =>
        /\ DOMAIN year_to_cum_topics = {D[n].year : n \in WithTopics}
        /\ \A y \in DOMAIN year_to_cum_topics : year_to_cum_topics[y] = YearMean(y)

\* C4: in the grouping passes by year, by journal and by dominant topic, a record
\* without a distribution raises no error, creates no bucket key, and once the loop is
\* over every record with a distribution has been put in a bucket.
C4_MissingTopicsAreSkipped ==
    op \in {"year", "journal", "cooc"} =>
        /\ ~(pc = "group" /\ raised = "KeyError")
        /\ DOMAIN year_to_topics \subseteq {D[n].year : n \in WithTopics}
        /\ DOMAIN journal_to_topics \subseteq {D[n].journal : n \in WithTopics}
        /\ (pc # "group" =>
               NumVectors(year_to_topics) + NumVectors(journal_to_topics)
                  + NumVectors(dominant_id_to_topics) = Cardinality(WithTopics))

\* C5: a grouping pass never gets past a record whose distribution has a topic id
\* outside [0, K): it stops at that record, and no vector of it reaches a bucket.
C5_InvalidTopicIdStopsThePass ==
    op \in {"year", "journal", "cooc"} =>
        \A n \in WithTopics : ~ValidIds(D[n]) => (pc = "group" /\ i <= n /\ AllVectors = {})

\* the records the inference pass is to derive from a raw collection, in its order
RECURSIVE Derived(_)
Derived(raw) ==
    IF raw = <<>> THEN <<>>
    ELSE IF Head(raw).tokens = None THEN Derived(Tail(raw))
    ELSE <<[journal |-> Head(raw).journal[1], year |-> Head(raw).year[1],
            title |-> Head(raw).title[1],
            topics |-> Some(dic_topics(get_document_topics(doc2bow(Head(raw).tokens[1]))))]>>
         \o Derived(Tail(raw))

\* C6: no step of the inference pass changes the raw collection, and when the pass has
\* run to completion the derived collection holds exactly one record for each raw
\* record with tokens, in the raw collection's order, and none for a record without.
C6_InferenceDerivesOnePerTokenizedRecord ==
    /\ [][db'.publications_raw = db.publications_raw]_vars
    /\ [](op = "infer" /\ pc = "done" => db.publications = Derived(db.publications_raw))

C6_Witness ==
    /\ op = "infer" /\ pc = "done"
    /\ Len(db.publications) >= 2
    /\ \E n \in 1..Len(db.publications_raw) : db.publications_raw[n].tokens = None

\* C7: when the inference pass has ended after a failure on one record, every later
\* record that has tokens and its journal, year and title has been persisted.
C7_FailureDoesNotAbortThePass ==
    (op = "infer" /\ raised # "") =>
        \A n \in (i + 1)..Len(db.publications_raw) :
            LET d == db.publications_raw[n]
            IN (d.tokens # None /\ HasMeta(d)) => insert_doc(d) \in SeqRange(db.publications)

\* C8: the self-suppression loop of the co-occurrence pass never raises, and when it
\* is over the entries whose topic equals their group key are 0 and every other entry
\* has the value the cumulative distribution gave it.
C8_SelfSuppressionCompletes ==
    (op = "cooc" /\ pc \in {"suppress", "done"}) =>
        /\ raised = ""
        /\ (pc = "done" =>
               \A k \in DOMAIN dominant_id_to_cum_topics :
                   \A r \in 0..(NRows(df) - 1) :
                       df[get_topic_label(k)][r + 1] =
                           IF r = k THEN <<0, 1>> ELSE dominant_id_to_cum_topics[k][r + 1])

\* C9: when the per-year or the per-journal pass has ended, grouping and reducing any
\* permutation of the collection ends the same way: with the same error, or with the
\* same keys and the same mean vector for every key.
C9_ReductionIsOrderIndependent ==
    /\ (op = "year" /\ Ended) =>
          \A P \in PermutationsOf(D) :
              LET r == get_year_to_cum_topics_of(P)
              IN r.raised = raised /\ (raised = "" => r.dict = year_to_cum_topics)
    /\ (op = "journal" /\ Ended) =>
          \A P \in PermutationsOf(D) :
              LET r == get_journal_to_cum_topics_of(P)
              IN r.raised = raised /\ (raised = "" => r.dict = journal_to_cum_topics)

C9_Witness ==
    /\ op = "year" /\ pc = "done"
    /\ Len(D) >= 2 /\ D[1].year = D[2].year
    /\ sorted_topic_values(D[1].topics[1]) # sorted_topic_values(D[2].topics[1])
    /\ Len(year_to_topics[D[1].year]) >= 2

\* C10: the bucket key the co-occurrence pass gives a record is the topic id the titles
\* table reports for it, for an iteration order of the mapping that suits the claim.
C10_BucketKeyIsDominantTopicId ==
    op = "cooc" =>
        \A n \in 1..Len(D) :
            (HasTopics(D[n]) /\ (n < i \/ pc # "group")) =>
                \E keyOrder \in Orderings(DOMAIN D[n].topics[1]) :
                    LET id == py_int(max_by_value(iteritems(D[n].topics[1], keyOrder))[1])
                    IN /\ id \in DOMAIN dominant_id_to_topics
                       /\ sorted_topic_values(D[n].topics[1]) \in SeqRange(dominant_id_to_topics[id])

====
